---- MODULE Spec2Model ----
(***************************************************************************)
(* bayesloop: ChangepointStudy (changepointStudy.py) and the observation   *)
(* models Poisson and AR1 (observationModel.py).                           *)
(*                                                                         *)
(* Numbers.  Grid values and raster values are kept as integers: every     *)
(* axis of the model is chosen so that numpy's linspace lands on integers  *)
(* (lower + i*(upper-lower)/(steps-1) divides exactly).  Probabilities are *)
(* kept as integer weights over a common denominator (the sum of the       *)
(* evidence weights), so sums and products of them are exact.              *)
(***************************************************************************)
EXTENDS Integers, Sequences, FiniteSets, TLC

\* ------------------------------------------------------------------ bounds
\* largest number of formatted data segments, len(self.formattedData)
MaxT == 4
\* longest list of hyper-parameter names of a transition model, and the
\* largest number of break-point times held by one 'tBreak' hyper-parameter
MaxN == 3
\* the largest raster (rows of allRasterValues) a fit is run on
MaxTuples == 130
\* number of evidence patterns the sequential filter is let to produce
MaxSeed == 2
\* number of distinct evidence weights
EvidenceLevels == 3

\* ------------------------------------------------------------- arithmetic
RECURSIVE ProdSeq(_)
ProdSeq(s) ==
    IF s = <<>> THEN 1 ELSE Head(s) * ProdSeq(Tail(s))

Abs(x) ==
    IF x < 0 THEN -x ELSE x

RECURSIVE Power(_, _)
Power(b, e) ==
    IF e = 0 THEN 1 ELSE b * Power(b, e - 1)

\* list.count(x)
RECURSIVE Count(_, _)
Count(s, x) ==
    IF s = <<>> THEN 0
    ELSE (IF Head(s) = x THEN 1 ELSE 0) + Count(Tail(s), x)

\* f[lo] + ... + f[hi], by halves
RECURSIVE SumRange(_, _, _)
SumRange(f, lo, hi) ==
    IF lo > hi THEN 0
    ELSE IF lo = hi THEN f[lo]
    ELSE LET mid == (lo + hi) \div 2
         IN  SumRange(f, lo, mid) + SumRange(f, mid + 1, hi)

\* f[1] + ... + f[n]
SumFn(f, n) ==
    SumRange(f, 1, n)

\* the number of TRUE among m[1..k]
CountTrue(m, k) ==
    Cardinality({j \in 1..k : m[j]})

\* the entries of s at the positions where m is TRUE, in order: s[m]
Select(s, m) ==
    [i \in 1..CountTrue(m, Len(m)) |->
        s[CHOOSE k \in 1..Len(m) : m[k] /\ CountTrue(m, k) = i]]

\* ------------------------------------------------------------------ numpy
\* np.linspace(lower, upper, steps), 1-based
Linspace(lower, upper, steps) ==
    [i \in 1..steps |->
        IF steps = 1 THEN lower
        ELSE lower + ((i - 1) * (upper - lower)) \div (steps - 1)]

\* C-order (row-major) multi-index of the flat index k (0-based) in an array
\* of the given shape; the last axis varies fastest
RECURSIVE Unravel(_, _)
Unravel(k, shape) ==
    IF shape = <<>> THEN <<>>
    ELSE LET inner == ProdSeq(Tail(shape))
         IN  <<k \div inner>> \o Unravel(k % inner, Tail(shape))

\* np.meshgrid(*xs) is called without indexing=..., so numpy's default
\* indexing='xy' applies: for two or more inputs the output arrays have shape
\* (N2, N1, N3, ..., ND), i.e. input d runs along output dimension
\* MeshgridDim(d), with the first two dimensions exchanged.
MeshgridDim(d, D) ==
    IF D >= 2 /\ d = 1 THEN 2
    ELSE IF D >= 2 /\ d = 2 THEN 1
    ELSE d

MeshgridShape(sizes) ==
    [p \in 1..Len(sizes) |->
        sizes[CHOOSE d \in 1..Len(sizes) : MeshgridDim(d, Len(sizes)) = p]]

\* np.array([t.flatten() for t in np.meshgrid(*xs)]).T : one row per tuple,
\* column d holding a value of xs[d]
MeshgridRows(xs) ==
    LET D     == Len(xs)
        sizes == [d \in 1..D |-> Len(xs[d])]
        shape == MeshgridShape(sizes)
    IN  [k \in 1..ProdSeq(sizes) |->
            LET m == Unravel(k - 1, shape)
            IN  [d \in 1..D |-> xs[d][m[MeshgridDim(d, D)] + 1]]]

\* ------------------------------------------------------------ inputs
HyperParameterNames == {"tChange", "tBreak", "sigma"}

\* list.count does not depend on the order of the names: the lists are taken
\* with the 'tChange' names first, then 'tBreak', then the others
NamesOf(c, b, o) ==
    [i \in 1..(c + b + o) |->
        IF i <= c THEN "tChange" ELSE IF i <= c + b THEN "tBreak" ELSE "sigma"]

NameLists ==
    {NamesOf(c, b, o) : c \in 0..MaxN, b \in 0..2, o \in 0..1}

\* A transition model as fit sees it: the flattened names of its
\* hyper-parameters and the number of break-point times its 'tBreak'
\* hyper-parameter (a list) holds
TransitionModels ==
    {[names |-> ns, nBreakTimes |-> b] :
        ns \in NameLists,
        b \in 0..MaxN}

Axis(name, lower, upper, steps) ==
    [name |-> name, lower |-> lower, upper |-> upper, steps |-> steps]

\* the `raster` argument of fit: additional continuous axes
RasterArgs ==
    { <<>>,
      <<Axis("sigma", 0, 4, 3)>>,
      <<Axis("sigma", 0, 1, 2)>>,
      <<Axis("sigma", 0, 1, 2), Axis("pMin", 0, 4, 3)>> }

SelectedChoices == { <<>>, <<"sigma">> }

\* ------------------------------------------------------------------ state
VARIABLES
    pc,                          \* position inside fit: idle, build, rasterFit, reconstruct
    outcome,                     \* how the last fit ended: none, returned, EmptyRaster, done
    message,                     \* the diagnostic fit printed before an early return
    transitionModel,             \* self.transitionModel
    formattedLen,                \* len(self.formattedData)
    rasterArg,                   \* fit's argument raster
    nChangepoint,                \* fit's local nChangepoint
    nBreakpoint,                 \* fit's local nBreakpoint
    selectedHyperParameters,     \* self.selectedHyperParameters
    selectedAtCall,              \* history: its value when fit was called
    axes,                        \* the axis list objects, by identity
    raster,                      \* self.raster: a list of references to axis objects
    allRasterValues,             \* self.allRasterValues
    mask,                        \* self.mask
    rasterValues,                \* self.rasterValues
    rasterConstant,              \* self.rasterConstant
    hyperParameterDistribution,  \* self.hyperParameterDistribution
    rasterRunDistribution,       \* history: the distribution RasterStudy.fit produced
    rasterFitCalls,              \* history: calls of RasterStudy.fit in this fit
    filterCalls,                 \* history: sequential-filter passes in this fit
    plotResult,                  \* what the last plotDuration call did
    plotCall,                    \* history: the last distribution plot and the raster around it
    poisson,                     \* a Poisson observation model
    ar1,                         \* an AR1 observation model
    pdfCall                      \* the last pdf call: its arguments and result

studyVars ==
    <<pc, outcome, message, transitionModel, formattedLen, rasterArg, nChangepoint,
      nBreakpoint, selectedHyperParameters, selectedAtCall, axes, raster,
      allRasterValues, mask, rasterValues, rasterConstant,
      hyperParameterDistribution, rasterRunDistribution, rasterFitCalls,
      filterCalls, plotResult, plotCall>>

obsVars ==
    <<poisson, ar1, pdfCall>>

vars ==
    <<studyVars, obsVars>>

\* ------------------------------------------------- fit: configuration check
\* Study.unpackSelectedHyperParameters() with selectedHyperParameters =
\* ['tBreak']: the values of the selected hyper-parameter, one per break-point
unpackSelectedHyperParameters(tm, selected) ==
    IF selected = <<"tBreak">> /\ Count(tm.names, "tBreak") >= 1
    THEN [i \in 1..tm.nBreakTimes |-> i]
    ELSE <<>>

nChangepointOf(tm) ==
    Count(tm.names, "tChange")

nBreakpointOf(tm) ==
    IF Count(tm.names, "tBreak") = 1
    THEN Len(unpackSelectedHyperParameters(tm, <<"tBreak">>))
    ELSE 0

\* self.selectedHyperParameters after the break-point count
selectedAfterCount(tm, selected) ==
    IF Count(tm.names, "tBreak") = 1 THEN <<"tBreak">> ELSE selected

\* mutants of the configuration check
configurationVerdictNoMultipleCheck(tm) ==
    IF nChangepointOf(tm) = 0 /\ nBreakpointOf(tm) = 0 THEN "noPoints"
    ELSE IF nChangepointOf(tm) > 0 /\ nBreakpointOf(tm) > 0 THEN "bothKinds"
    ELSE "proceed"

configurationVerdictNoBothCheck(tm) ==
    IF Count(tm.names, "tBreak") > 1 THEN "multipleBreak"
    ELSE IF nChangepointOf(tm) = 0 /\ nBreakpointOf(tm) = 0 THEN "noPoints"
    ELSE "proceed"

\* the three early returns of fit, in the order the code tests them
configurationVerdict(tm) ==
    IF Count(tm.names, "tBreak") > 1 THEN "multipleBreak"
    ELSE IF nChangepointOf(tm) = 0 /\ nBreakpointOf(tm) = 0 THEN "noPoints"
    ELSE IF nChangepointOf(tm) > 0 /\ nBreakpointOf(tm) > 0 THEN "bothKinds"
    ELSE "proceed"

\* rows of the raster a proceeding fit builds
RasterSize(tm, T, r) ==
    Power(T, nChangepointOf(tm) + nBreakpointOf(tm))
        * ProdSeq([i \in 1..Len(r) |-> r[i].steps])

\* fit, lines 56-81: format the data, count change-points and break-points,
\* return early on an unsupported configuration.  The transition model, the
\* data and the raster argument are the inputs of the call; one fit is followed
\* per constructed study.
fit_checkConfiguration ==
    /\ pc = "idle"
    /\ outcome = "none"
    /\ \E tm \in TransitionModels, T \in 1..MaxT, r \in RasterArgs :
        /\ Count(tm.names, "tBreak") # 1 => tm.nBreakTimes = 0
        /\ configurationVerdict(tm) = "proceed" => RasterSize(tm, T, r) <= MaxTuples
        /\ transitionModel' = tm
        /\ formattedLen' = T
        /\ rasterArg' = r
        /\ nChangepoint' = nChangepointOf(tm)
        /\ nBreakpoint' = IF configurationVerdict(tm) = "multipleBreak" THEN 0
                          ELSE nBreakpointOf(tm)
        /\ selectedAtCall' = selectedHyperParameters
        /\ selectedHyperParameters' =
              IF configurationVerdict(tm) = "multipleBreak"
              THEN selectedHyperParameters
              ELSE selectedAfterCount(tm, selectedHyperParameters)
        /\ rasterFitCalls' = 0
        /\ filterCalls' = 0
        /\ IF configurationVerdict(tm) = "proceed"
           THEN /\ pc' = "build"
                /\ UNCHANGED <<outcome, message>>
           ELSE /\ pc' = "idle"
                /\ outcome' = "returned"
                /\ message' = configurationVerdict(tm)
    /\ UNCHANGED <<axes, raster, allRasterValues, mask, rasterValues, rasterConstant,
                   hyperParameterDistribution, rasterRunDistribution, plotResult>>
    /\ UNCHANGED plotCall
    /\ UNCHANGED obsVars

\* ------------------------------------------------------ fit: the raster
\* ['tChange', 0, len(self.formattedData)-1, len(self.formattedData)]
orderedAxis(name, T) ==
    Axis(name, 0, T - 1, T)

\* the axis objects after fit built its raster: object 0 is the one list
\* ['tChange'|'tBreak', ...] that [[...]]*n repeats n times, objects 1.. are
\* the lists of the raster argument
axisObjects(name, T, r) ==
    [id \in 0..Len(r) |-> IF id = 0 THEN orderedAxis(name, T) ELSE r[id]]

\* [[...]]*n + raster, as references
rasterRefs(n, r) ==
    [i \in 1..(n + Len(r)) |-> IF i <= n THEN 0 ELSE i - n]

\* [np.linspace(lower, upper, steps) for name, lower, upper, steps in self.raster]
axisValues(ax, refs) ==
    [i \in 1..Len(refs) |->
        Linspace(ax[refs[i]].lower, ax[refs[i]].upper, ax[refs[i]].steps)]

\* mutants of the mask
maskOfTiesAccepted(rows, n) ==
    [k \in 1..Len(rows) |-> \A i \in 1..(n - 1) : rows[k][i] <= rows[k][i + 1]]

maskOfLastPairUnchecked(rows, n) ==
    [k \in 1..Len(rows) |-> \A i \in 1..(n - 2) : rows[k][i] < rows[k][i + 1]]

\* [all(x[i] < x[i+1] for i in range(n-1)) for x in self.allRasterValues]
maskOf(rows, n) ==
    [k \in 1..Len(rows) |-> \A i \in 1..(n - 1) : rows[k][i] < rows[k][i + 1]]

\* [1]*n + [np.abs(upper-lower)/(float(steps)-1) for ... in raster]
rasterConstantOf(n, r) ==
    [i \in 1..(n + Len(r)) |->
        IF i <= n THEN 1
        ELSE Abs(r[i - n].upper - r[i - n].lower) \div (r[i - n].steps - 1)]

\* fit, lines 84-126: the raster of change-points or of break-points
fit_buildRaster ==
    /\ pc = "build"
    /\ LET n    == IF nChangepoint > 0 THEN nChangepoint ELSE nBreakpoint
           name == IF nChangepoint > 0 THEN "tChange" ELSE "tBreak"
           ax   == axisObjects(name, formattedLen, rasterArg)
           refs == rasterRefs(n, rasterArg)
           rows == MeshgridRows(axisValues(ax, refs))
       IN  /\ axes' = ax
           /\ allRasterValues' = rows
           /\ mask' = maskOf(rows, n)
           /\ rasterValues' = Select(rows, maskOf(rows, n))
           /\ rasterConstant' = rasterConstantOf(n, rasterArg)
           \* line 126: for break-points 'tBreak' occurs once during the raster run
           /\ raster' = IF nChangepoint > 0 THEN refs ELSE rasterRefs(1, rasterArg)
    /\ pc' = "rasterFit"
    /\ UNCHANGED <<outcome, message, transitionModel, formattedLen, rasterArg,
                   nChangepoint, nBreakpoint, selectedHyperParameters, selectedAtCall,
                   hyperParameterDistribution, rasterRunDistribution, rasterFitCalls,
                   filterCalls, plotResult>>
    /\ UNCHANGED plotCall
    /\ UNCHANGED obsVars

\* ------------------------------------------------------ RasterStudy.fit
\* exp(logEvidence) of the k-th valid tuple, as the sequential filter returns
\* it: a positive weight
Evidence(seed, k) ==
    ((k * seed) % EvidenceLevels) + 1

\* RasterStudy.fit(customRaster=True): fails with EmptyRaster when no tuple
\* is valid, before any pass of the sequential filter
RasterStudy_fit_empty ==
    /\ pc = "rasterFit"
    /\ rasterValues = <<>>
    /\ rasterFitCalls' = rasterFitCalls + 1
    /\ pc' = "idle"
    /\ outcome' = "EmptyRaster"
    /\ UNCHANGED <<message, transitionModel, formattedLen, rasterArg, nChangepoint,
                   nBreakpoint, selectedHyperParameters, selectedAtCall, axes, raster,
                   allRasterValues, mask, rasterValues, rasterConstant,
                   hyperParameterDistribution, rasterRunDistribution, filterCalls,
                   plotResult>>
    /\ UNCHANGED plotCall
    /\ UNCHANGED obsVars

\* RasterStudy.fit(customRaster=True): one pass of the sequential filter per
\* valid tuple, in raster order; the distribution over the valid tuples is
\* proportional to exp(logEvidence)
RasterStudy_fit_run ==
    /\ pc = "rasterFit"
    /\ rasterValues # <<>>
    /\ \E seed \in 1..MaxSeed :
        /\ hyperParameterDistribution' =
               [k \in 1..Len(rasterValues) |-> Evidence(seed, k)]
        /\ rasterRunDistribution' =
               [k \in 1..Len(rasterValues) |-> Evidence(seed, k)]
    /\ rasterFitCalls' = rasterFitCalls + 1
    /\ filterCalls' = filterCalls + Len(rasterValues)
    /\ pc' = "reconstruct"
    /\ UNCHANGED <<outcome, message, transitionModel, formattedLen, rasterArg,
                   nChangepoint, nBreakpoint, selectedHyperParameters, selectedAtCall,
                   axes, raster, allRasterValues, mask, rasterValues, rasterConstant,
                   plotResult>>
    /\ UNCHANGED plotCall
    /\ UNCHANGED obsVars

\* ------------------------------------------------ fit: dense distribution
\* mutant: the values fill the leading positions, whatever the mask
expandLeading(m, d) ==
    [k \in 1..Len(m) |-> IF k <= Len(d) THEN d[k] ELSE 0]

\* temp = np.zeros(len(m)); temp[m] = d : the i-th TRUE position of m takes d[i]
expand(m, d) ==
    [k \in 1..Len(m) |-> IF m[k] THEN d[CountTrue(m, k)] ELSE 0]

\* fit, lines 131-140: restore the raster of break-points, zero-fill the
\* invalid tuples
fit_reconstruct ==
    /\ pc = "reconstruct"
    /\ raster' = IF nBreakpoint > 0 THEN rasterRefs(nBreakpoint, rasterArg) ELSE raster
    /\ hyperParameterDistribution' = expand(mask, hyperParameterDistribution)
    /\ pc' = "idle"
    /\ outcome' = "done"
    /\ UNCHANGED <<message, transitionModel, formattedLen, rasterArg, nChangepoint,
                   nBreakpoint, selectedHyperParameters, selectedAtCall, axes,
                   allRasterValues, mask, rasterValues, rasterConstant,
                   rasterRunDistribution, rasterFitCalls, filterCalls, plotResult>>
    /\ UNCHANGED plotCall
    /\ UNCHANGED obsVars

\* ----------------------------------------------------------- plotDuration
\* [steps for name, lower, upper, steps in self.raster]
rasterSteps ==
    [i \in 1..Len(raster) |-> axes[raster[i]].steps]

\* range(len(hyperParameterNames)) after removing the two indices; axes are
\* numbered from 0 as in the code
axesToMarginalize(indices) ==
    {p \in 0..(Len(raster) - 1) : p # indices[1] /\ p # indices[2]}

\* self.hyperParameterDistribution.reshape(rasterSteps), summed over the axes
\* to marginalize: the entry at (i, j) of the two axes left, a < b, from 0
marginalSum(dist, steps, a, b, i, j) ==
    SumFn([k \in 1..Len(dist) |->
              LET m == Unravel(k - 1, steps)
              IN  IF m[a + 1] = i /\ m[b + 1] = j THEN dist[k] ELSE 0],
          Len(dist))

\* np.prod([self.rasterConstant[axis] for axis in axesToMarginalize])
integrationFactor(indices) ==
    ProdSeq([p \in 1..Len(raster) |->
                IF (p - 1) \in axesToMarginalize(indices) THEN rasterConstant[p] ELSE 1])

\* the loop durationDistribution[abs(i-j)] += marginalDistribution[i, j]
durationOf(marginal, n0, n1) ==
    [d \in 1..n0 |->
        SumFn([c \in 1..(n0 * n1) |->
                  LET i == (c - 1) \div n1
                      j == (c - 1) % n1
                  IN  IF Abs(i - j) = d - 1 THEN marginal[<<i, j>>] ELSE 0],
              n0 * n1)]

IndexChoices ==
    {<<p>> : p \in 0..(MaxN - 1)}
        \cup {<<p, q>> : p \in 0..(MaxN + 1), q \in 0..(MaxN + 1)}

\* plotDuration(indices), on a fitted study.  The call changes nothing of the
\* study, so one call per fitted study is followed.
plotDuration ==
    /\ pc = "idle"
    /\ outcome = "done"
    /\ plotResult.outcome = "none"
    /\ \E indices \in IndexChoices :
        /\ \A p \in 1..Len(indices) : indices[p] < Len(raster)
        /\ plotResult' =
            IF Len(indices) # 2
            THEN \* '! Exactly two change/break-points have to be specified'
                 [outcome |-> "returnedNone", indices |-> indices,
                  durationDistribution |-> <<>>]
            ELSE IF indices[1] = indices[2]
            THEN \* the second axesToMarginalize.remove(p) finds no p
                 [outcome |-> "ValueError", indices |-> indices,
                  durationDistribution |-> <<>>]
            ELSE LET a  == IF indices[1] < indices[2] THEN indices[1] ELSE indices[2]
                     b  == IF indices[1] < indices[2] THEN indices[2] ELSE indices[1]
                     n0 == rasterSteps[a + 1]
                     n1 == rasterSteps[b + 1]
                     marginal ==
                         [ij \in (0..(n0 - 1)) \X (0..(n1 - 1)) |->
                             marginalSum(hyperParameterDistribution, rasterSteps,
                                         a, b, ij[1], ij[2])
                                 * integrationFactor(indices)]
                 IN  IF n0 = 1 \/ n1 = 1
                     THEN \* np.squeeze drops the axis: no shape[1] (or shape[0])
                          [outcome |-> "IndexError", indices |-> indices,
                           durationDistribution |-> <<>>]
                     ELSE IF n1 > n0
                     THEN \* abs(i-j) reaches shape[0]
                          [outcome |-> "IndexError", indices |-> indices,
                           durationDistribution |-> <<>>]
                     ELSE [outcome |-> "returned", indices |-> indices,
                           durationDistribution |-> durationOf(marginal, n0, n1)]
    /\ UNCHANGED <<pc, outcome, message, transitionModel, formattedLen, rasterArg,
                   nChangepoint, nBreakpoint, selectedHyperParameters, selectedAtCall,
                   axes, raster, allRasterValues, mask, rasterValues, rasterConstant,
                   hyperParameterDistribution, rasterRunDistribution, rasterFitCalls,
                   filterCalls>>
    /\ UNCHANGED plotCall
    /\ UNCHANGED obsVars

\* ------------------------------------------------- distribution plots
\* [name, lower, upper, steps] of every entry of self.raster
RasterEntries ==
    [i \in 1..Len(raster) |-> axes[raster[i]]]

\* the tRange argument: none, one boundary only, a lower and an upper one
TRangeChoices ==
    { <<>>, <<10>>, <<10, 20>> }

\* if tRange and len(tRange) != 2: print '! A lower AND upper boundary ...';
\* tRange = []
effectiveTRange(tRange) ==
    IF tRange # <<>> /\ Len(tRange) # 2 THEN <<>> ELSE tRange

\* self.raster[i][1] = tRange[0]; self.raster[i][2] = tRange[1] for the i
\* selected (numbered from 0): the list objects those entries refer to are
\* written, and every entry referring to the same object shows the new values
alteredAxes(ax, refs, selected, tRange) ==
    [id \in DOMAIN ax |->
        IF \E p \in 1..Len(selected) : refs[selected[p] + 1] = id
        THEN [ax[id] EXCEPT !.lower = tRange[1], !.upper = tRange[2]]
        ELSE ax[id]]

\* The body the four plot methods share:
\*    temp = self.raster[:]            a new list of the same axis objects
\*    self.raster[i][1], [2] = tRange  writes the axis objects
\*    RasterStudy.plot...              reads the study, changes nothing of it
\*    self.raster = temp               the same axis objects again
plotWithTRange(op, selected, tRange) ==
    /\ pc = "idle"
    /\ outcome = "done"
    /\ \A p \in 1..Len(selected) : selected[p] < Len(raster)
    /\ LET t  == effectiveTRange(tRange)
           ax == IF t # <<>> THEN alteredAxes(axes, raster, selected, t) ELSE axes
       IN  /\ axes' = ax
           /\ plotCall' = [op |-> op, indices |-> selected, tRange |-> tRange,
                           before |-> RasterEntries,
                           during |-> [i \in 1..Len(raster) |-> ax[raster[i]]]]
    /\ UNCHANGED <<pc, outcome, message, transitionModel, formattedLen, rasterArg,
                   nChangepoint, nBreakpoint, selectedHyperParameters, selectedAtCall,
                   raster, allRasterValues, mask, rasterValues, rasterConstant,
                   hyperParameterDistribution, rasterRunDistribution, rasterFitCalls,
                   filterCalls, plotResult>>
    /\ UNCHANGED obsVars

\* plotChangepointDistribution(idx, tRange), on a study of change-points
plotChangepointDistribution ==
    /\ nChangepoint > 0
    /\ \E idx \in 0..(MaxN + 1), tRange \in TRangeChoices :
        plotWithTRange("plotChangepointDistribution", <<idx>>, tRange)

\* plotBreakpointDistribution(idx, tRange), on a study of break-points
plotBreakpointDistribution ==
    /\ nBreakpoint > 0
    /\ \E idx \in 0..(MaxN + 1), tRange \in TRangeChoices :
        plotWithTRange("plotBreakpointDistribution", <<idx>>, tRange)

\* plotJointChangepointDistribution(indices, tRange), on a study of change-points
plotJointChangepointDistribution ==
    /\ nChangepoint > 0
    /\ \E i \in 0..(MaxN + 1), j \in 0..(MaxN + 1), tRange \in TRangeChoices :
        /\ i # j
        /\ plotWithTRange("plotJointChangepointDistribution", <<i, j>>, tRange)

\* plotJointBreakpointDistribution(indices, tRange), on a study of break-points
plotJointBreakpointDistribution ==
    /\ nBreakpoint > 0
    /\ \E i \in 0..(MaxN + 1), j \in 0..(MaxN + 1), tRange \in TRangeChoices :
        /\ i # j
        /\ plotWithTRange("plotJointBreakpointDistribution", <<i, j>>, tRange)

\* ------------------------------------------------------ observation models
\* A measurement: a number, or the missing-data value NaN
Num(v) ==
    [nan |-> FALSE, v |-> v]

NaN ==
    [nan |-> TRUE, v |-> 0]

Measurements ==
    {NaN, Num(0), Num(1), Num(2)}

\* uninformativePdf: None, or an array of likelihood values (fractions <<num, den>>)
NoPdf ==
    [isNone |-> TRUE, values |-> <<>>]

UninformativeChoices ==
    { [isNone |-> FALSE, values |-> << <<1, 2>>, <<1, 4>>, <<1, 4>> >>],
      [isNone |-> FALSE, values |-> << <<1, 1>>, <<0, 1>> >>] }

\* Poisson grids: grid[0], the rate values
PoissonGrids ==
    { <<0, 1, 2>>, <<0, 1, 2, 3>>, <<1, 2>> }

\* AR1 grids: the points (r, s) of the flattened two-dimensional grid, so that
\* grid[0] is the array of the r and grid[1] the array of the s
GridPoints(rs, ss) ==
    [k \in 1..(Len(rs) * Len(ss)) |->
        <<rs[((k - 1) \div Len(ss)) + 1], ss[((k - 1) % Len(ss)) + 1]>>]

AR1Grids ==
    { GridPoints(<<-1, 0, 1>>, <<1, 2>>),
      GridPoints(<<-1, 1>>, <<0, 1>>),
      GridPoints(<<0>>, <<1, 2, 3>>) }

RECURSIVE Factorial(_)
Factorial(n) ==
    IF n <= 0 THEN 1 ELSE n * Factorial(n - 1)

\* np.ones_like(grid[0])/np.sum(np.ones_like(grid[0])): the entries as
\* fractions <<numerator, denominator>>
uniformLikelihood(grid) ==
    LET ones  == [p \in 1..Len(grid) |-> 1]
        total == SumFn(ones, Len(grid))
    IN  [p \in 1..Len(grid) |-> <<ones[p], total>>]

\* (grid[0]**x[0])*(np.exp(-grid[0]))/(np.math.factorial(x[0])), kept as the
\* term  pow * e^(-expNeg) / fact
poissonLikelihood(grid, x) ==
    [p \in 1..Len(grid) |->
        [pow |-> Power(grid[p], x[1].v), expNeg |-> grid[p], fact |-> Factorial(x[1].v)]]

\* np.exp(-((x[1] - grid[0]*x[0])**2.)/(2.*grid[1]**2.) - np.log(2.*np.pi*grid[1]**2.)),
\* kept as the term
\*    exp( -quadNum/quadDen - (logHalves/2) * log(logArg * pi) ),
\* which is not a number (nan) where grid[1] is 0
ar1Likelihood(grid, x) ==
    [p \in 1..Len(grid) |->
        LET r == grid[p][1]
            s == grid[p][2]
        IN  [quadNum   |-> (x[2].v - r * x[1].v) * (x[2].v - r * x[1].v),
             quadDen   |-> 2 * s * s,
             logArg    |-> 2 * s * s,
             logHalves |-> 2,
             nan       |-> (s = 0)]]

\* mutant: only the first measurement is tested
ar1MissingFirstOnly(x) ==
    x[1].nan

\* np.isnan(x[0])
poissonMissing(x) ==
    x[1].nan

\* np.isnan(x[0]) or np.isnan(x[1])
ar1Missing(x) ==
    x[1].nan \/ x[2].nan

\* model.uninformativePdf = array (or None)
setUninformativePdf ==
    /\ \E u \in UninformativeChoices \cup {NoPdf} :
        \/ /\ poisson' = [poisson EXCEPT !.uninformativePdf = u]
           /\ UNCHANGED ar1
        \/ /\ ar1' = [ar1 EXCEPT !.uninformativePdf = u]
           /\ UNCHANGED poisson
    /\ UNCHANGED pdfCall
    /\ UNCHANGED studyVars

\* Poisson.pdf(grid, x)
Poisson_pdf ==
    /\ \E grid \in PoissonGrids, x0 \in Measurements :
        LET x == <<x0>>
        IN  pdfCall' =
              IF poissonMissing(x)
              THEN IF ~poisson.uninformativePdf.isNone
                   THEN [model |-> "Poisson", grid |-> grid, x |-> x,
                         configured |-> poisson.uninformativePdf,
                         kind |-> "uninformative",
                         values |-> poisson.uninformativePdf.values]
                   ELSE [model |-> "Poisson", grid |-> grid, x |-> x,
                         configured |-> poisson.uninformativePdf,
                         kind |-> "uniform", values |-> uniformLikelihood(grid)]
              ELSE [model |-> "Poisson", grid |-> grid, x |-> x,
                    configured |-> poisson.uninformativePdf,
                    kind |-> "likelihood", values |-> poissonLikelihood(grid, x)]
    /\ UNCHANGED <<poisson, ar1>>
    /\ UNCHANGED studyVars

\* AR1.pdf(grid, x)
AR1_pdf ==
    /\ \E grid \in AR1Grids, x0 \in Measurements, x1 \in Measurements :
        LET x == <<x0, x1>>
        IN  pdfCall' =
              IF ar1Missing(x)
              THEN IF ~ar1.uninformativePdf.isNone
                   THEN [model |-> "AR1", grid |-> grid, x |-> x,
                         configured |-> ar1.uninformativePdf,
                         kind |-> "uninformative",
                         values |-> ar1.uninformativePdf.values]
                   ELSE [model |-> "AR1", grid |-> grid, x |-> x,
                         configured |-> ar1.uninformativePdf,
                         kind |-> "uniform", values |-> uniformLikelihood(grid)]
              ELSE [model |-> "AR1", grid |-> grid, x |-> x,
                    configured |-> ar1.uninformativePdf,
                    kind |-> "likelihood", values |-> ar1Likelihood(grid, x)]
    /\ UNCHANGED <<poisson, ar1>>
    /\ UNCHANGED studyVars

\* --------------------------------------------------------- construction
NoTransitionModel ==
    [names |-> <<>>, nBreakTimes |-> 0]

NoPlotCall ==
    [op |-> "none", indices |-> <<>>, tRange |-> <<>>, before |-> <<>>, during |-> <<>>]

NoPlot ==
    [outcome |-> "none", indices |-> <<>>, durationDistribution |-> <<>>]

NoPdfCall ==
    [model |-> "none", grid |-> <<>>, x |-> <<>>, configured |-> NoPdf,
     kind |-> "none", values |-> <<>>]

\* ChangepointStudy.__init__ (and the base classes'): an empty study
StudyInit ==
    /\ pc = "idle"
    /\ outcome = "none"
    /\ message = "none"
    /\ transitionModel = NoTransitionModel
    /\ formattedLen = 0
    /\ rasterArg = <<>>
    /\ nChangepoint = 0
    /\ nBreakpoint = 0
    /\ selectedHyperParameters \in SelectedChoices
    /\ selectedAtCall = <<>>
    /\ axes = <<>>
    /\ raster = <<>>
    /\ allRasterValues = <<>>
    /\ mask = <<>>
    /\ rasterValues = <<>>
    /\ rasterConstant = <<>>
    /\ hyperParameterDistribution = <<>>
    /\ rasterRunDistribution = <<>>
    /\ rasterFitCalls = 0
    /\ filterCalls = 0
    /\ plotResult = NoPlot
    /\ plotCall = NoPlotCall

\* Poisson.__init__ and AR1.__init__
ObsInit ==
    /\ poisson = [segmentLength |-> 1,
                  defaultGridSize |-> <<1000>>,
                  defaultBoundaries |-> << <<0, 1>> >>,
                  uninformativePdf |-> NoPdf]
    /\ ar1 = [segmentLength |-> 2,
              defaultGridSize |-> <<200, 200>>,
              defaultBoundaries |-> << <<-1, 1>>, <<0, 1>> >>,
              uninformativePdf |-> NoPdf]
    /\ pdfCall = NoPdfCall

Init ==
    StudyInit /\ ObsInit

Next ==
    \/ fit_checkConfiguration
    \/ fit_buildRaster
    \/ RasterStudy_fit_empty
    \/ RasterStudy_fit_run
    \/ fit_reconstruct
    \/ plotDuration

Spec ==
    Init /\ [][Next]_vars

\* fit followed by the distribution plots
NextPlot ==
    \/ fit_checkConfiguration
    \/ fit_buildRaster
    \/ RasterStudy_fit_empty
    \/ RasterStudy_fit_run
    \/ fit_reconstruct
    \/ plotChangepointDistribution
    \/ plotBreakpointDistribution
    \/ plotJointChangepointDistribution
    \/ plotJointBreakpointDistribution

SpecPlot ==
    Init /\ [][NextPlot]_vars

\* the observation models alone
NextPdf ==
    \/ setUninformativePdf
    \/ Poisson_pdf
    \/ AR1_pdf

SpecPdf ==
    Init /\ [][NextPdf]_vars

\* ================================================================ claims
\* a fit has ended, in whatever way
FitEnded ==
    pc = "idle" /\ outcome # "none"

\* fit has built its raster (lines 84-126 have run)
RasterBuilt ==
    pc \in {"rasterFit", "reconstruct"} \/ outcome \in {"EmptyRaster", "done"}

\* the number n of ordered-discrete axes of the raster
OrderedAxes ==
    IF nChangepoint > 0 THEN nChangepoint ELSE nBreakpoint

\* the value sets of the axes of the raster as built: n ordered-discrete axes
\* over 0..T-1, then the axes of the raster argument
BuiltAxisValues ==
    [d \in 1..(OrderedAxes + Len(rasterArg)) |->
        IF d <= OrderedAxes
        THEN 0..(formattedLen - 1)
        ELSE LET a == rasterArg[d - OrderedAxes]
             IN  {a.lower + (i * (a.upper - a.lower)) \div (a.steps - 1) :
                     i \in 0..(a.steps - 1)}]

StrictlyIncreasing(row, n) ==
    \A i \in 1..n : \A j \in 1..n : i < j => row[i] < row[j]

\* C1: once fit has built the raster, allRasterValues holds every tuple of the
\* Cartesian product of the axis value sets exactly once, and the mask marks a
\* tuple valid exactly when its n ordered-discrete values are strictly
\* increasing (ties and inversions are masked out, whatever the continuous
\* values are); for n = 2, T = 4 and no extra axis the valid tuples are
\* (0,1), (0,2), (0,3), (1,2), (1,3), (2,3).
C1_MaskIsStrictOrder ==
    RasterBuilt =>
        LET rows == allRasterValues
            n    == OrderedAxes
            D    == n + Len(rasterArg)
        IN  /\ Len(rows) = ProdSeq([d \in 1..D |-> Cardinality(BuiltAxisValues[d])])
            /\ Cardinality({rows[k] : k \in 1..Len(rows)}) = Len(rows)
            /\ \A k \in 1..Len(rows) :
                  /\ Len(rows[k]) = D
                  /\ \A d \in 1..D : rows[k][d] \in BuiltAxisValues[d]
            /\ Len(mask) = Len(rows)
            /\ \A k \in 1..Len(rows) : mask[k] <=> StrictlyIncreasing(rows[k], n)
            /\ (n = 2 /\ formattedLen = 4 /\ rasterArg = <<>>) =>
                  {rows[k] : k \in {j \in 1..Len(rows) : mask[j]}}
                      = {<<0, 1>>, <<0, 2>>, <<0, 3>>, <<1, 2>>, <<1, 3>>, <<2, 3>>}

C1_Witness ==
    /\ RasterBuilt
    /\ nChangepoint = 2
    /\ formattedLen = 4
    /\ rasterArg = <<>>
    /\ \E k \in 1..Len(mask) : ~mask[k] /\ allRasterValues[k] = <<1, 1>>
    /\ \E k \in 1..Len(mask) : ~mask[k] /\ allRasterValues[k] = <<2, 1>>

\* C2: after fit, the dense hyperParameterDistribution is as long as
\* allRasterValues, its entries at the mask-true positions are, in order, the
\* distribution the raster run produced over the valid tuples, and its entries
\* at the mask-false positions are 0.
C2_DenseReconstruction ==
    outcome = "done" =>
        /\ Len(hyperParameterDistribution) = Len(allRasterValues)
        /\ Select(hyperParameterDistribution, mask) = rasterRunDistribution
        /\ \A k \in 1..Len(mask) : ~mask[k] => hyperParameterDistribution[k] = 0

C2_Witness ==
    /\ outcome = "done"
    /\ Len(rasterRunDistribution) >= 2
    /\ ~mask[1]
    /\ \E k \in 1..Len(mask) : mask[k] /\ hyperParameterDistribution[k] # 0
    /\ rasterRunDistribution[1] # rasterRunDistribution[2]

\* the three unsupported configurations, read off the transition model
ChangepointsPresent(tm) ==
    \E i \in 1..Len(tm.names) : tm.names[i] = "tChange"

BreakGroups(tm) ==
    Cardinality({i \in 1..Len(tm.names) : tm.names[i] = "tBreak"})

BreakpointsPresent(tm) ==
    BreakGroups(tm) = 1 /\ tm.nBreakTimes > 0

Unsupported(tm) ==
    \/ BreakGroups(tm) > 1
    \/ ChangepointsPresent(tm) /\ BreakpointsPresent(tm)
    \/ ~ChangepointsPresent(tm) /\ ~BreakpointsPresent(tm)

\* C3, as stated: on an unsupported configuration fit fails with an error
\* the caller can catch, and never returns normally.
C3_NeverReturnsNormally ==
    (FitEnded /\ Unsupported(transitionModel)) => outcome # "returned"

\* C3, amended: on an unsupported configuration (more than one 'tBreak'
\* hyper-parameter; else change-points and break-points both present; else
\* neither present) fit prints the diagnostic of that case and returns
\* normally, leaving raster, mask and distribution as they were; on a
\* supported configuration it does not return early.
C3_PrintsAndReturns ==
    FitEnded =>
        IF Unsupported(transitionModel)
        THEN /\ outcome = "returned"
             /\ message = (IF BreakGroups(transitionModel) > 1 THEN "multipleBreak"
                           ELSE IF ChangepointsPresent(transitionModel) THEN "bothKinds"
                           ELSE "noPoints")
             /\ raster = <<>>
             /\ allRasterValues = <<>>
             /\ mask = <<>>
             /\ hyperParameterDistribution = <<>>
        ELSE outcome \in {"done", "EmptyRaster"} /\ message = "none"

C3_Witness ==
    /\ FitEnded
    /\ outcome = "returned"
    /\ message = "bothKinds"
    /\ ChangepointsPresent(transitionModel)
    /\ BreakpointsPresent(transitionModel)

C5_NoRasterRunOnConfigurationError ==
    ((pc # "idle" \/ outcome # "none") /\ Unsupported(transitionModel)) =>
        /\ pc = "idle"
        /\ rasterFitCalls = 0
        /\ filterCalls = 0
        /\ rasterValues = <<>>

C5_Witness ==
    /\ FitEnded
    /\ outcome = "returned"
    /\ message = "multipleBreak"
    /\ rasterFitCalls = 0
    /\ filterCalls = 0

\* the measurements pdf requires: x[0] for Poisson, x[0] and x[1] for AR1
RequiredMissing(call) ==
    \E i \in 1..Len(call.x) : call.x[i].nan

\* C6: when a required measurement is missing, Poisson.pdf and AR1.pdf
\* return the configured uninformativePdf if one is set and otherwise the
\* array shaped like the grid whose every entry is 1/(number of grid points),
\* which sums to 1; the likelihood formula is evaluated exactly when nothing
\* is missing.
C6_MissingDataPolicy ==
    pdfCall.model # "none" =>
        IF RequiredMissing(pdfCall)
        THEN IF pdfCall.configured.isNone
             THEN /\ pdfCall.kind = "uniform"
                  /\ Len(pdfCall.values) = Len(pdfCall.grid)
                  /\ \A p \in 1..Len(pdfCall.values) :
                        pdfCall.values[p] = <<1, Len(pdfCall.grid)>>
                  /\ SumFn([p \in 1..Len(pdfCall.values) |-> pdfCall.values[p][1]],
                           Len(pdfCall.values)) = Len(pdfCall.grid)
             ELSE /\ pdfCall.kind = "uninformative"
                  /\ pdfCall.values = pdfCall.configured.values
        ELSE pdfCall.kind = "likelihood"

C6_Witness ==
    /\ pdfCall.model = "AR1"
    /\ ~pdfCall.x[1].nan
    /\ pdfCall.x[2].nan
    /\ pdfCall.configured.isNone
    /\ pdfCall.kind = "uniform"
    /\ Len(pdfCall.grid) = 6

\* the Gaussian density exp(-(x1 - r*x0)^2 / (2 s^2)) / sqrt(2*pi*s^2) as a
\* term: the factor 1/sqrt(2*pi*s^2) is exp(-(1/2) * log(2*pi*s^2))
GaussianDensity(r, s, x0, x1) ==
    [quadNum   |-> (x1 - r * x0) * (x1 - r * x0),
     quadDen   |-> 2 * s * s,
     logArg    |-> 2 * s * s,
     logHalves |-> 1,
     nan       |-> FALSE]

\* C7: for a segment without missing values AR1.pdf returns, at every grid
\* point (r, s) with s # 0, the Gaussian density
\* exp(-(x1 - r*x0)^2 / (2 s^2)) / sqrt(2*pi*s^2).
C7_GaussianNormalisation ==
    (pdfCall.model = "AR1" /\ pdfCall.kind = "likelihood") =>
        \A p \in 1..Len(pdfCall.grid) :
            pdfCall.grid[p][2] # 0 =>
                pdfCall.values[p] =
                    GaussianDensity(pdfCall.grid[p][1], pdfCall.grid[p][2],
                                    pdfCall.x[1].v, pdfCall.x[2].v)

\* C8: the lower bound of the noise-amplitude axis of AR1's default
\* boundaries is > 0.
C8_NoiseLowerBoundPositive ==
    ar1.defaultBoundaries[2][1] > 0

\* C9: after fit, the row k of allRasterValues is the tuple of the grid values
\* at the multi-index that k has in an array shaped by the step counts of
\* self.raster, so that the reshaped dense distribution is indexed axis by
\* axis.
C9_RowsInAxisOrder ==
    outcome = "done" =>
        \A k \in 1..Len(allRasterValues) :
            \A j \in 1..Len(raster) :
                allRasterValues[k][j]
                    = axisValues(axes, raster)[j][Unravel(k - 1, rasterSteps)[j] + 1]

\* the joint marginal of the axes a < b (from 0) at the grid indices (i, j):
\* the mass of the tuples whose value on a is the i-th and on b the j-th grid
\* value, scaled by the raster constants of the other axes
JointMarginal(a, b, i, j) ==
    LET vals == axisValues(axes, raster)
    IN  SumFn([k \in 1..Len(allRasterValues) |->
                  IF /\ allRasterValues[k][a + 1] = vals[a + 1][i + 1]
                     /\ allRasterValues[k][b + 1] = vals[b + 1][j + 1]
                  THEN hyperParameterDistribution[k] ELSE 0],
              Len(allRasterValues))
            * ProdSeq([p \in 1..Len(raster) |->
                          IF p - 1 # a /\ p - 1 # b THEN rasterConstant[p] ELSE 1])

\* C10: plotDuration on two distinct ordered-discrete axes returns T entries,
\* the entry d being the sum of the joint marginal of the two axes over the
\* grid index pairs (i, j) with |i - j| = d.
C10_DurationOfJointMarginal ==
    (/\ plotResult.outcome = "returned"
     /\ plotResult.indices[1] < OrderedAxes
     /\ plotResult.indices[2] < OrderedAxes) =>
        LET a == IF plotResult.indices[1] < plotResult.indices[2]
                 THEN plotResult.indices[1] ELSE plotResult.indices[2]
            b == IF plotResult.indices[1] < plotResult.indices[2]
                 THEN plotResult.indices[2] ELSE plotResult.indices[1]
            T == formattedLen
        IN  /\ Len(plotResult.durationDistribution) = T
            /\ \A d \in 0..(T - 1) :
                  plotResult.durationDistribution[d + 1] =
                      SumFn([c \in 1..(T * T) |->
                                LET i == (c - 1) \div T
                                    j == (c - 1) % T
                                IN  IF Abs(i - j) = d THEN JointMarginal(a, b, i, j)
                                    ELSE 0],
                            T * T)

\* C11: a distribution plot called with a two-element tRange leaves every
\* entry of self.raster (name, lower, upper, steps) as it was before the call,
\* and during the call only the entries selected by idx/indices differ from
\* what they were.
C11_RasterRestored ==
    (plotCall.op # "none" /\ Len(plotCall.tRange) = 2) =>
        /\ RasterEntries = plotCall.before
        /\ \A i \in 1..Len(raster) :
              (\A p \in 1..Len(plotCall.indices) : plotCall.indices[p] # i - 1)
                  => plotCall.during[i] = plotCall.before[i]

\* C12: when fit has returned for a transition model with one 'tBreak'
\* hyper-parameter, self.selectedHyperParameters is what it was when fit was
\* called.
C12_SelectedRestored ==
    (FitEnded /\ Count(transitionModel.names, "tBreak") = 1) =>
        selectedHyperParameters = selectedAtCall

====
